---- MODULE Spec2Model ----
(***************************************************************************)
(* Model of the CoAP -> MQTT bridge (src/src): the typed device state of   *)
(* the Philips HU1508 (devices/philips.py, devices/coap_device.py), the    *)
(* differential publisher (mqtt.py, Connection.publish_state) and the      *)
(* per-device session state machine (coap_bridge.py, DeviceBridge) with    *)
(* its asyncio tasks: the observe loop, the request watchdogs, the         *)
(* send_update call of the MQTT subscriber and shutdown.                   *)
(*                                                                         *)
(* asyncio is cooperative: a task runs without interruption from one       *)
(* await that suspends to the next one.  Each action below is one such     *)
(* run of one task; its name says at which await the task resumes.         *)
(***************************************************************************)
EXTENDS Integers, Sequences, FiniteSets, TLC

(***************************************************************************)
(* devices/philips.py: raw keys                                            *)
(***************************************************************************)
DEVICE_NAME == "D01S03"
POWER_STATUS == "D03102"
WORK_MODE == "D0310C"
HUMIDITY_TARGET == "D03128"
LAMP_MODE == "D03135"
AMBIENT_LIGHT_MODE == "D03137"
BRIGHTNESS == "D03105"
BEEP_STATUS == "D03130"
STANDBY_SENSORS == "D03134"
TEMPERATURE == "D03224"
HUMIDITY == "D03125"
FILTER_TOTAL_TIME == "D05207"
FILTER_REMAINING_TIME == "D0520D"
ERROR_CODE == "D03240"
RUNTIME == "Runtime"

(***************************************************************************)
(* Python values of the typed view.  A value carries its Python type so    *)
(* that None, an enum member name, an int and a float are all comparable   *)
(* (Python's ==) without being confused.  VErr stands for "the getter      *)
(* raised" (ValueError of an Enum lookup, ZeroDivisionError).              *)
(***************************************************************************)
VNone == [t |-> "none", i |-> 0, s |-> ""]
VErr == [t |-> "raise", i |-> 0, s |-> ""]
VInt(n) == [t |-> "int", i |-> n, s |-> ""]
VStr(x) == [t |-> "str", i |-> 0, s |-> x]
\* a float with two decimals, kept in hundredths
VFloat(h) == [t |-> "float", i |-> h, s |-> ""]

\* dict.get(key, default) on the raw dictionary
Get(raw, key, default) == IF key \in DOMAIN raw THEN raw[key] ELSE default

\* the raw dictionary with raw[key] = value assigned
SetKey(raw, key, value) ==
    [k \in (DOMAIN raw) \cup {key} |-> IF k = key THEN value ELSE raw[k]]

\* Enum(value): the member's name, or "ValueError" when no member has the value
OnOff(v) == CASE v = 0 -> "OFF" [] v = 1 -> "ON" [] OTHER -> "ValueError"

WorkMode(v) ==
    CASE v = 0 -> "Auto" [] v = 17 -> "Sleep" [] v = 19 -> "Medium"
      [] v = 65 -> "High" [] OTHER -> "ValueError"

LampMode(v) ==
    CASE v = 0 -> "Off" [] v = 1 -> "Humidity" [] v = 11 -> "Warm"
      [] v = 12 -> "Dawn" [] v = 13 -> "Calm" [] v = 14 -> "Breath"
      [] OTHER -> "ValueError"

Brightness(v) ==
    CASE v = 123 -> "Bright" [] v = 115 -> "Low" [] v = 0 -> "Off"
      [] OTHER -> "ValueError"

ErrorStatus(v) ==
    CASE v = 0 -> "NoError" [] v = -16128 -> "FillTank"
      [] v = -16352 -> "CleanFilter" [] OTHER -> "ValueError"

\* get_value of as_dict for an enum-typed getter: the member's name
EnumValue(name) == IF name = "ValueError" THEN VErr ELSE VStr(name)

\* round(n / d * 100, 2) in hundredths, ties to even (d > 0, n >= 0)
RoundPercent(n, d) ==
    LET q == (n * 10000) \div d
        r == (n * 10000) % d
    IN  IF 2 * r > d \/ (2 * r = d /\ q % 2 = 1) THEN q + 1 ELSE q

(***************************************************************************)
(* devices/philips.py: the getters of Hu1508, as as_dict serialises them   *)
(***************************************************************************)
name(raw) == VStr(Get(raw, DEVICE_NAME, "Unknown"))

power_status(raw) == EnumValue(OnOff(Get(raw, POWER_STATUS, 0)))

mode(raw) == EnumValue(WorkMode(Get(raw, WORK_MODE, 0)))

humidity_target(raw) == VInt(Get(raw, HUMIDITY_TARGET, 40))

lamp_mode(raw) ==
    LET lamp_mode_ == Get(raw, LAMP_MODE, 0)
    IN  IF lamp_mode_ = 2
        THEN EnumValue(LampMode(Get(raw, AMBIENT_LIGHT_MODE, 0) + 10))
        ELSE EnumValue(LampMode(lamp_mode_))

brightness(raw) == EnumValue(Brightness(Get(raw, BRIGHTNESS, 0)))

preferences_beep(raw) == EnumValue(OnOff(Get(raw, BEEP_STATUS, 1)))

preferences_sensors_in_standby(raw) == EnumValue(OnOff(Get(raw, STANDBY_SENSORS, 1)))

temperature(raw) == VInt(Get(raw, TEMPERATURE, 0) \div 10)

humidity(raw) == VInt(Get(raw, HUMIDITY, 0))

percent_unit_before_cleaning(raw) ==
    LET remaining_time == Get(raw, FILTER_REMAINING_TIME, 200)
        total_time == Get(raw, FILTER_TOTAL_TIME, 200)
    IN  IF total_time = 0 THEN VErr
        ELSE VFloat(RoundPercent(remaining_time, total_time))

error(raw) ==
    LET error_code == Get(raw, ERROR_CODE, 100)
    IN  IF error_code = 0 THEN VNone
        ELSE IF ErrorStatus(error_code) # "ValueError"
             THEN VStr(ErrorStatus(error_code))
             ELSE VInt(error_code)

runtime_seconds(raw) == VInt(Get(raw, RUNTIME, 0) \div 1000)

\* CoapDevice.properties(): the property names in class-definition order
properties ==
    << "name", "power_status", "mode", "humidity_target", "lamp_mode",
       "brightness", "preferences_beep", "preferences_sensors_in_standby",
       "temperature", "humidity", "percent_unit_before_cleaning", "error",
       "runtime_seconds" >>

PropertyNames == { properties[n] : n \in DOMAIN properties }

\* getattr(self, name)
GetAttr(raw, p) ==
    CASE p = "name" -> name(raw)
      [] p = "power_status" -> power_status(raw)
      [] p = "mode" -> mode(raw)
      [] p = "humidity_target" -> humidity_target(raw)
      [] p = "lamp_mode" -> lamp_mode(raw)
      [] p = "brightness" -> brightness(raw)
      [] p = "preferences_beep" -> preferences_beep(raw)
      [] p = "preferences_sensors_in_standby" -> preferences_sensors_in_standby(raw)
      [] p = "temperature" -> temperature(raw)
      [] p = "humidity" -> humidity(raw)
      [] p = "percent_unit_before_cleaning" -> percent_unit_before_cleaning(raw)
      [] p = "error" -> error(raw)
      [] p = "runtime_seconds" -> runtime_seconds(raw)

\* CoapDevice.as_dict(): {property: serialisable value}
as_dict(raw) == [p \in PropertyNames |-> GetAttr(raw, p)]

(***************************************************************************)
(* devices/coap_device.py, devices/philips.py: the setters                 *)
(***************************************************************************)
\* the int behind a numeral received as MQTT payload, for int(value)
IntLiterals == [ s \in {"40", "45", "50", "60", "70"} |->
    CASE s = "40" -> 40 [] s = "45" -> 45 [] s = "50" -> 50
      [] s = "60" -> 60 [] s = "70" -> 70 ]

\* next(v for v in target_type if v.name == value): the member's value
EnumByName(enum, s) ==
    CASE enum = "OnOff" ->
           (CASE s = "OFF" -> [ok |-> TRUE, v |-> 0] [] s = "ON" -> [ok |-> TRUE, v |-> 1]
              [] OTHER -> [ok |-> FALSE, v |-> 0])
      [] enum = "WorkMode" ->
           (CASE s = "Auto" -> [ok |-> TRUE, v |-> 0] [] s = "Sleep" -> [ok |-> TRUE, v |-> 17]
              [] s = "Medium" -> [ok |-> TRUE, v |-> 19] [] s = "High" -> [ok |-> TRUE, v |-> 65]
              [] OTHER -> [ok |-> FALSE, v |-> 0])
      [] enum = "LampMode" ->
           (CASE s = "Off" -> [ok |-> TRUE, v |-> 0] [] s = "Humidity" -> [ok |-> TRUE, v |-> 1]
              [] s = "Warm" -> [ok |-> TRUE, v |-> 11] [] s = "Dawn" -> [ok |-> TRUE, v |-> 12]
              [] s = "Calm" -> [ok |-> TRUE, v |-> 13] [] s = "Breath" -> [ok |-> TRUE, v |-> 14]
              [] OTHER -> [ok |-> FALSE, v |-> 0])
      [] enum = "Brightness" ->
           (CASE s = "Bright" -> [ok |-> TRUE, v |-> 123] [] s = "Low" -> [ok |-> TRUE, v |-> 115]
              [] s = "Off" -> [ok |-> TRUE, v |-> 0] [] OTHER -> [ok |-> FALSE, v |-> 0])

\* the annotation of each setter's value parameter; "" when there is no setter
SetterType(p) ==
    CASE p \in {"power_status", "preferences_beep", "preferences_sensors_in_standby"} -> "OnOff"
      [] p = "mode" -> "WorkMode"
      [] p = "lamp_mode" -> "LampMode"
      [] p = "brightness" -> "Brightness"
      [] p = "humidity_target" -> "int"
      [] OTHER -> ""

\* (mutant) a wrapper that passes on what it could not coerce
coerce_unchecked(p, value) == [ok |-> TRUE, v |-> 0]

\* ensure_setter_type.wrapper: the payload string coerced to the setter's type;
\* ok = FALSE when the coercion raises ValueError
ensure_setter_type(p, value) ==
    IF SetterType(p) = "int"
    THEN IF value \in DOMAIN IntLiterals
         THEN [ok |-> TRUE, v |-> IntLiterals[value]]
         ELSE [ok |-> FALSE, v |-> 0]
    ELSE EnumByName(SetterType(p), value)

\* A device: the raw dictionary and the pending command queue
Device(raw, cmds) == [raw |-> raw, commands |-> cmds]

\* (mutant) _add_command that puts the command at the head of the queue
add_command_first(d, fields) ==
    Device(d.raw, <<[f \in fields |-> d.raw[f]]>> \o d.commands)

\* CoapDevice._add_command(fields): one command with the current raw values
add_command(d, fields) ==
    Device(d.raw, Append(d.commands, [f \in fields |-> d.raw[f]]))

\* power_status.setter (value already an OnOff member)
set_power_status(d, v) ==
    IF Get(d.raw, POWER_STATUS, 0) = v THEN d
    ELSE add_command(Device(SetKey(d.raw, POWER_STATUS, v), d.commands), {POWER_STATUS})

\* the setters that first force power_status = ON, then assign one raw key
set_with_power(d, key, v) ==
    LET on == set_power_status(d, 1)
    IN  add_command(Device(SetKey(on.raw, key, v), on.commands), {key})

\* (mutant) lamp_mode.setter storing the ambient light code without the shift
set_lamp_mode_unshifted(d, v) ==
    LET on == set_power_status(d, 1)
        raw1 == IF v > 10
                THEN SetKey(SetKey(on.raw, LAMP_MODE, 2), AMBIENT_LIGHT_MODE, v)
                ELSE SetKey(SetKey(on.raw, LAMP_MODE, v), AMBIENT_LIGHT_MODE, 0)
    IN  add_command(Device(raw1, on.commands), {LAMP_MODE, AMBIENT_LIGHT_MODE})

\* (mutant) lamp_mode.setter emitting one command per raw key
set_lamp_mode_split(d, v) ==
    LET on == set_power_status(d, 1)
        raw1 == IF v > 10
                THEN SetKey(SetKey(on.raw, LAMP_MODE, 2), AMBIENT_LIGHT_MODE, v - 10)
                ELSE SetKey(SetKey(on.raw, LAMP_MODE, v), AMBIENT_LIGHT_MODE, 0)
    IN  add_command(add_command(Device(raw1, on.commands), {LAMP_MODE}),
                    {AMBIENT_LIGHT_MODE})

\* lamp_mode.setter
set_lamp_mode(d, v) ==
    LET on == set_power_status(d, 1)
        raw1 == IF v > 10
                THEN SetKey(SetKey(on.raw, LAMP_MODE, 2), AMBIENT_LIGHT_MODE, v - 10)
                ELSE SetKey(SetKey(on.raw, LAMP_MODE, v), AMBIENT_LIGHT_MODE, 0)
    IN  add_command(Device(raw1, on.commands), {LAMP_MODE, AMBIENT_LIGHT_MODE})

\* preferences_beep.setter, preferences_sensors_in_standby.setter
set_plain(d, key, v) == add_command(Device(SetKey(d.raw, key, v), d.commands), {key})

\* the power_status getter raises when the raw value is no OnOff member
PowerReadable(raw) == OnOff(Get(raw, POWER_STATUS, 0)) # "ValueError"

\* setattr(self.state, property_name, new_value): the device afterwards; an
\* exception (no setter, coercion failed, getter raised) leaves it as it was
SetAttr(d, p, value) ==
    LET c == ensure_setter_type(p, value)
    IN  IF SetterType(p) = "" \/ ~c.ok THEN d
        ELSE CASE p = "power_status" ->
                    IF PowerReadable(d.raw) THEN set_power_status(d, c.v) ELSE d
               [] p = "mode" ->
                    IF PowerReadable(d.raw) THEN set_with_power(d, WORK_MODE, c.v) ELSE d
               [] p = "humidity_target" ->
                    IF PowerReadable(d.raw) THEN set_with_power(d, HUMIDITY_TARGET, c.v) ELSE d
               [] p = "lamp_mode" ->
                    IF PowerReadable(d.raw) THEN set_lamp_mode(d, c.v) ELSE d
               [] p = "brightness" ->
                    IF PowerReadable(d.raw) THEN set_with_power(d, BRIGHTNESS, c.v) ELSE d
               [] p = "preferences_beep" -> set_plain(d, BEEP_STATUS, c.v)
               [] p = "preferences_sensors_in_standby" -> set_plain(d, STANDBY_SENSORS, c.v)

(***************************************************************************)
(* Bounds of the model                                                     *)
(***************************************************************************)
\* polls (update_status_from_device calls) the observe loop makes, when it runs
\* with its watchdogs alone
MaxPolls == 2
\* polls the observe loop makes when commands and shutdown run beside it
MaxSessionPolls == 1
\* command messages the MQTT subscriber delivers to send_update
MaxUpdates == 1
\* publishes the broker refuses (MqttCodeError)
MaxPublishFailures == 1
\* messages the subscriber loop receives, when it runs alone
MaxMessages == 2
\* property writes on a device taken by itself
MaxWrites == 2
\* calls of _publish by one task, and rounds of the loop of Connection.observe
MaxPublishes == 2
\* command messages the broker delivers to the subscriber loop
MaxQueued == 3

(***************************************************************************)
(* Inputs                                                                  *)
(***************************************************************************)
host == "h1"

\* what get_status returns: (status, max_age)
StatusA ==
    [k \in {DEVICE_NAME, POWER_STATUS, WORK_MODE, TEMPERATURE, ERROR_CODE} |->
        CASE k = DEVICE_NAME -> "Foo" [] k = POWER_STATUS -> 0 [] k = WORK_MODE -> 0
          [] k = TEMPERATURE -> 215 [] k = ERROR_CODE -> 0]

StatusB ==
    [k \in {DEVICE_NAME, POWER_STATUS, WORK_MODE, TEMPERATURE, ERROR_CODE} |->
        CASE k = DEVICE_NAME -> "Foo" [] k = POWER_STATUS -> 1 [] k = WORK_MODE -> 0
          [] k = TEMPERATURE -> 228 [] k = ERROR_CODE -> -16128]

Statuses == {StatusA, StatusB}

MaxAges == {60, 5, -20}

\* the empty dict {}
EmptyDict == [k \in {} |-> 0]

\* (property_name, new_value) of the command messages
Updates ==
    { <<"lamp_mode", "Warm">>, <<"power_status", "OFF">>,
      <<"mode", "Turbo">>, <<"fan_speed", "1">> }

\* send_update before its first call
NoUpdate ==
    [prop |-> "", value |-> "", before |-> EmptyDict, after |-> EmptyDict,
     drained |-> <<>>, sent |-> <<>>, failed |-> FALSE]

\* (property_name, new_value) of the command messages the subscriber receives
Commands ==
    Updates \cup
    { <<"lamp_mode", "Off">>, <<"mode", "Auto">>, <<"humidity_target", "45">>,
      <<"humidity_target", "50">>, <<"humidity_target", "abc">>,
      <<"brightness", "Low">>, <<"power_status", "ON">>,
      <<"preferences_beep", "ON">>, <<"temperature", "20">> }

\* MqttConfig.root
root == "coap"

\* a bytes payload
VBytes(x) == [t |-> "bytes", i |-> 0, s |-> x]

\* "if not message.payload": None, b"" and "" are falsy
Truthy(payload) == payload.t # "none" /\ payload.s # ""

\* a topic is the sequence of its levels; the filter f"{self.root}/+/set/#"
\* also admits the topic that ends at the level "set"
Subscribed(topic) == Len(topic) >= 3 /\ topic[1] = root /\ topic[3] = "set"

\* re.fullmatch(f"{self.root}/(.+)/set/(.+)", topic): both groups take at least
\* one level, the first one greedily up to the last "set" that leaves one
fullmatch(topic) ==
    LET at == { n \in 3..(Len(topic) - 1) : topic[n] = "set" }
    IN  IF topic = <<>> \/ topic[1] # root \/ at = {}
        THEN [ok |-> FALSE, device |-> <<>>, property |-> <<>>]
        ELSE LET n == CHOOSE x \in at : \A y \in at : y <= x
             IN  [ok |-> TRUE, device |-> SubSeq(topic, 2, n - 1),
                  property |-> SubSeq(topic, n + 1, Len(topic))]

\* a group of one level is that level; a longer one holds a "/" and is no
\* host and no property name
Joined(levels) == IF Len(levels) = 1 THEN levels[1] ELSE "/"

\* the subscriber loop before its first message
NoMessage == [topic |-> <<>>, payload |-> VNone]

\* the messages the broker delivers to the subscription
Messages ==
    { m \in { [topic |-> <<root, host, "set", c[1]>>, payload |-> VBytes(c[2])] :
                 c \in Commands }
             \cup { [topic |-> <<root, "h9", "set", "mode">>, payload |-> VBytes("Auto")],
                    [topic |-> <<root, host, "set">>, payload |-> VBytes("Auto")],
                    [topic |-> <<root, host, "set", "mode">>, payload |-> VStr("Auto")],
                    [topic |-> <<root, host, "set", "mode">>, payload |-> VBytes("")] } :
        Subscribed(m.topic) }

\* the hosts of the other bridges of the group
Siblings == {"h2", "h3"}

\* how client.get_status() ends: it returns (status, max_age), raises
\* LibraryShutdown, raises ValueError / DigestMismatchException, or raises an
\* error _get_status does not catch (timeout, network error)
Outcomes == {"ok", "shutdown", "invalid", "raised"}

\* raw dictionaries a device may report for power and lamp; -1: key absent
RawOf(power, lamp, ambient) ==
    [k \in { x \in {POWER_STATUS, LAMP_MODE, AMBIENT_LIGHT_MODE} :
                CASE x = POWER_STATUS -> power # -1 [] x = LAMP_MODE -> lamp # -1
                  [] x = AMBIENT_LIGHT_MODE -> ambient # -1 } |->
        CASE k = POWER_STATUS -> power [] k = LAMP_MODE -> lamp
          [] k = AMBIENT_LIGHT_MODE -> ambient]

RawStates ==
    { RawOf(p, l, a) : p \in {-1, 0, 1, 2}, l \in {-1, 0, 1, 2}, a \in {-1, 0, 1, 4} }

(***************************************************************************)
(* Tasks of the event loop                                                 *)
(***************************************************************************)
NoTask == <<"none", 0>>
Obs == <<"obs", 0>>         \* DeviceBridge.observe
Upd == <<"upd", 0>>         \* Connection.observe -> DeviceBridge.send_update
Shut == <<"shut", 0>>       \* DeviceBridge.shutdown
Wd(n) == <<"wd", n>>        \* the _request_watchdog task created by poll n
Watchdogs == { Wd(n) : n \in 1..MaxPolls }
Tasks == {Obs, Upd, Shut} \cup Watchdogs

\* the callers of Connection._publish (bridge tasks) and Connection.observe
MqttPublishers == {"p1", "p2"}
Subscriber == "sub"
MqttTasks == MqttPublishers \cup {Subscriber}

\* the positions at which a task is suspended (or not started, or finished):
\* at these the event loop may run another task
Waiting ==
    { "start", "idle", "unborn", "armed", "done", "cancelled", "crashed", "stopped",
      "publish_offline", "publish_online", "pub_last_update", "pub_raw_state",
      "pub_attr", "connect_wait", "create", "connect_backoff", "get_status",
      "set_control_values", "disconnect_wait", "client_shutdown", "sleep",
      "sibling_update" }

VARIABLES
    \* DeviceBridge
    client,                 \* "None" or "CoAPClient"
    was_online,
    running,
    request_in_progress,
    cycle_time,
    observe_wait,           \* "None", or the state of the last sleep task
    device,                 \* self.state: [raw, commands]
    lock,                   \* client_connection_lock: holder first, then the waiters
    \* Connection
    last_states,            \* host -> last published as_dict
    \* the tasks
    pc,                     \* task -> position
    cur,                    \* the task that is running, NoTask: the event loop
    status, max_age,        \* update_status_from_device: what _get_status returned
    pretty_state, idx,      \* publish_state: as_dict() and the loop position
    pending,                \* send_update: the drained commands not yet sent
    nPoll, nUpdates, pubFails,
    budget,                 \* the polls, refused publishes and statuses of the run
    \* history
    statusCalls,            \* publish_offline / publish_online calls issued, in order
    lastPublished,          \* the status the broker accepted last
    pollOutcome,            \* how _get_status of the current poll returned
    onlineBefore,           \* was_online when signal_state was entered
    pollPubs,               \* publishes the observe task issued in the current poll
    attrCalls,              \* attribute topics issued by the current publish_state
    firstCall,              \* the current publish_state found no cache entry
    prevPretty,             \* as_dict() of the previous publish_state call
    failedAttr,             \* attribute -> value whose latest publish failed
    wdHist,                 \* watchdog -> what it saw and did when it expired
    assertFailed,           \* an "assert self.client is not None" failed
    upd,                    \* the last send_update: its arguments and what it did
    repollDue,              \* commands were sent and no get_status started since
    \* Connection.observe, MultipleDeviceBridge
    message,                \* the message the subscriber loop received last
    siblings,               \* the observe tasks of the other bridges of the group
    queued,                 \* client.messages: the hosts of the commands not yet taken
    sentTo,                 \* the sibling hosts a command was sent to
    requestOn,              \* the client of the pending get_status: held, orphan, shut
    \* Connection._connect, _disconnect, _publish
    connected,
    connection_lock,        \* holder first, then the waiters
    mq,                     \* task -> position in _publish / Connection.observe
    nPublish,               \* task -> calls of _publish (rounds of observe) so far
    result,                 \* task -> how its last client.publish (subscription) ended
    entries                 \* successful __aenter__ since the last __aexit__

deviceVars == <<client, was_online, running, request_in_progress, cycle_time,
                observe_wait, device, lock>>
localVars == <<status, max_age, pretty_state, idx, pending>>
countVars == <<nPoll, nUpdates, pubFails, budget>>
histVars == <<statusCalls, lastPublished, pollOutcome, onlineBefore, pollPubs,
              attrCalls, firstCall, prevPretty, failedAttr, wdHist, assertFailed>>
cmdVars == <<upd, repollDue, message, siblings>>
mqttVars == <<connected, connection_lock, mq, nPublish, result, entries>>
dispatchVars == <<queued, sentTo>>
extVars == <<mqttVars, dispatchVars, requestOn>>
bridgeVars == <<deviceVars, last_states, pc, cur, localVars, countVars, histVars, cmdVars>>
vars == <<bridgeVars, extVars>>

StartBridge ==
    /\ client = "None"
    /\ was_online = TRUE
    /\ running = TRUE
    /\ request_in_progress = FALSE
    /\ cycle_time = 30
    /\ observe_wait = "None"
    /\ lock = <<>>
    /\ last_states = EmptyDict
    /\ pc = [t \in Tasks |->
                CASE t = Obs -> "start" [] t \in {Upd, Shut} -> "idle" [] OTHER -> "unborn"]
    /\ cur = NoTask
    /\ status = EmptyDict
    /\ max_age = 0
    /\ pretty_state = EmptyDict
    /\ idx = 0
    /\ pending = <<>>
    /\ nPoll = 0
    /\ nUpdates = 0
    /\ pubFails = 0
    /\ statusCalls = <<>>
    /\ lastPublished = "NONE"
    /\ pollOutcome = "none"
    /\ onlineBefore = TRUE
    /\ pollPubs = <<>>
    /\ attrCalls = {}
    /\ firstCall = FALSE
    /\ prevPretty = <<>>
    /\ failedAttr = EmptyDict
    /\ wdHist = [w \in Watchdogs |-> [inPoll |-> FALSE, sawOnline |-> FALSE, calls |-> 0]]
    /\ assertFailed = FALSE
    /\ upd = NoUpdate
    /\ repollDue = FALSE
    /\ message = NoMessage
    /\ siblings = [h \in Siblings |-> "running"]
    /\ queued = <<>>
    /\ sentTo = {}
    /\ requestOn = "none"
    /\ connected = FALSE
    /\ connection_lock = <<>>
    /\ mq = [t \in MqttTasks |-> "idle"]
    /\ nPublish = [t \in MqttTasks |-> 0]
    /\ result = [t \in MqttTasks |-> "none"]
    /\ entries = 0

\* devices.create(device_name): the device starts with an empty raw dictionary
Start == StartBridge /\ device = Device(EmptyDict, <<>>)

\* every task may run; the broker takes every publish
Init ==
    /\ Start
    /\ budget = [polls |-> MaxSessionPolls, failures |-> 0,
                 statuses |-> {StatusA}, ages |-> {60}, updates |-> MaxUpdates,
                 outcomes |-> Outcomes]

\* the observe loop and its watchdogs alone; the broker may refuse publishes
InitObserve ==
    /\ Start
    /\ budget = [polls |-> MaxPolls, failures |-> MaxPublishFailures,
                 statuses |-> Statuses, ages |-> MaxAges, updates |-> 0,
                 outcomes |-> Outcomes]

\* the subscriber loop and send_update alone
InitCommands ==
    /\ Start
    /\ budget = [polls |-> 0, failures |-> 0, statuses |-> {}, ages |-> {},
                 updates |-> MaxMessages,
                 outcomes |-> Outcomes]

\* one bridge of a group observing, beside the observe tasks of its siblings
InitGroup ==
    /\ Start
    /\ budget = [polls |-> MaxSessionPolls, failures |-> 0,
                 statuses |-> {StatusA}, ages |-> {60}, updates |-> 0,
                 outcomes |-> Outcomes]

\* a device by itself, in any raw state
InitDevice ==
    /\ StartBridge
    /\ device \in { Device(raw, <<>>) : raw \in RawStates }
    /\ budget = [polls |-> 0, failures |-> 0, statuses |-> {}, ages |-> {},
                 updates |-> MaxWrites,
                 outcomes |-> Outcomes]

\* the Connection with its callers; the bridges are left out
InitMqtt ==
    /\ Start
    /\ budget = [polls |-> 0, failures |-> 0, statuses |-> {}, ages |-> {},
                 updates |-> 0, outcomes |-> {}]

\* the observe loop, its watchdogs and send_update; every publish is taken and
\* get_status raises no error that _get_status does not catch
InitRecover ==
    /\ Start
    /\ budget = [polls |-> MaxPolls, failures |-> 0, statuses |-> {StatusA},
                 ages |-> {60}, updates |-> MaxUpdates,
                 outcomes |-> {"ok", "shutdown", "invalid"}]

\* the subscriber loop with the messages queued for it
InitDispatch ==
    /\ Start
    /\ budget = [polls |-> 0, failures |-> 0, statuses |-> {}, ages |-> {},
                 updates |-> MaxQueued, outcomes |-> {}]

\* task t moves to position l; it keeps running unless l is a suspension
Goto(t, l) ==
    /\ pc' = [pc EXCEPT ![t] = l]
    /\ cur' = IF l \in Waiting THEN NoTask ELSE t

\* the event loop resumes task t, suspended at position l
Resume(t, l) == cur = NoTask /\ pc[t] = l

\* task t is running and at position l
At(t, l) == cur = t /\ pc[t] = l

\* Connection._publish returned: the broker took the message (ok) or refused it
Published(ok) ==
    /\ ok \/ pubFails < budget.failures
    /\ pubFails' = IF ok THEN pubFails ELSE pubFails + 1

Last(seq) == seq[Len(seq)]

(***************************************************************************)
(* coap_bridge.py: the routines shared by the tasks                        *)
(***************************************************************************)
\* (mutant) a connect or disconnect that does not wait for the lock
AcquireAlways(l) == TRUE

\* asyncio.Lock: acquire() returns at once iff the lock is free and nobody waits
CanAcquire(l) == l = <<>>

\* asyncio.Lock: release(), or a cancelled waiter leaving the queue
Release(l, t) == SelectSeq(l, LAMBDA x : x # t)

\* where task t goes on after signal_offline returned
AfterSignalOffline(t) ==
    IF t = Obs THEN (IF nPoll = 0 THEN "update_status" ELSE "signal_state")
    ELSE "disconnect"

\* where task t goes on after _disconnect returned
AfterDisconnect(t) == IF t = Obs THEN "signal_offline" ELSE "done"

\* the wire operation task t makes once ensure_connected_client returned
WireOp(t) == IF t = Obs THEN "get_status" ELSE "set_control_values"

\* (mutant) "if not self.client: await self._connect()": one attempt, no loop
AfterConnectOnce == "wire"

\* ensure_connected_client: "while not self.client" goes back to the test
\* after each _connect
AfterConnect == "ensure_connected"

\* (mutant) signal_offline without its gate
OfflineAlways(w) == TRUE

\* signal_offline: "if not self.was_online: return" lets the call pass iff
\* was_online
SignalOfflineGate(w) == w

\* (mutant) signal_offline that leaves the mirror as it was
OfflineMirrorKept(w) == w

\* signal_offline: "self.was_online = False"
OfflineMirror(w) == FALSE

\* signal_offline, up to the await of publish_offline
SignalOffline(t) ==
    /\ At(t, "signal_offline")
    /\ IF SignalOfflineGate(was_online)
       THEN /\ was_online' = OfflineMirror(was_online)
            /\ statusCalls' = Append(statusCalls, "OFFLINE")
            /\ pollPubs' = IF t = Obs THEN Append(pollPubs, "OFFLINE") ELSE pollPubs
            /\ wdHist' = IF t \in Watchdogs
                         THEN [wdHist EXCEPT ![t].calls = @ + 1] ELSE wdHist
            /\ Goto(t, "publish_offline")
       ELSE /\ Goto(t, AfterSignalOffline(t))
            /\ UNCHANGED <<was_online, statusCalls, pollPubs, wdHist>>
    /\ UNCHANGED <<client, running, request_in_progress, cycle_time, observe_wait,
                   device, lock, last_states, localVars, countVars, lastPublished,
                   pollOutcome, onlineBefore, attrCalls, firstCall, prevPretty,
                   failedAttr, assertFailed, cmdVars, extVars>>

\* signal_offline: publish_offline returned
PublishOfflineDone(t) ==
    /\ Resume(t, "publish_offline")
    /\ \E ok \in BOOLEAN :
          /\ Published(ok)
          /\ lastPublished' = IF ok THEN "OFFLINE" ELSE lastPublished
    /\ Goto(t, AfterSignalOffline(t))
    /\ UNCHANGED <<deviceVars, last_states, localVars, nPoll, nUpdates, budget, statusCalls,
                   pollOutcome, onlineBefore, pollPubs, attrCalls, firstCall,
                   prevPretty, failedAttr, wdHist, assertFailed, cmdVars, extVars>>

\* _disconnect: "async with self.client_connection_lock"
Disconnect(t) ==
    /\ At(t, "disconnect")
    /\ lock' = Append(lock, t)
    /\ Goto(t, IF CanAcquire(lock) THEN "disconnect_locked" ELSE "disconnect_wait")
    /\ UNCHANGED <<client, was_online, running, request_in_progress, cycle_time,
                   observe_wait, device, last_states, localVars, countVars, histVars, cmdVars,
                   extVars>>

\* _disconnect: the lock is handed to the waiting task
DisconnectWake(t) ==
    /\ Resume(t, "disconnect_wait")
    /\ Head(lock) = t
    /\ Goto(t, "disconnect_locked")
    /\ UNCHANGED <<deviceVars, last_states, localVars, countVars, histVars, cmdVars,
                   extVars>>

\* _disconnect: "if not self.client: return", else await self.client.shutdown(),
\* which ends the requests pending on that client with LibraryShutdown
DisconnectLocked(t) ==
    /\ At(t, "disconnect_locked")
    /\ IF client = "None"
       THEN /\ lock' = Release(lock, t)
            /\ Goto(t, AfterDisconnect(t))
            /\ requestOn' = requestOn
       ELSE /\ lock' = lock
            /\ Goto(t, "client_shutdown")
            /\ requestOn' = IF requestOn = "held" THEN "shut" ELSE requestOn
    /\ UNCHANGED <<client, was_online, running, request_in_progress, cycle_time,
                   observe_wait, device, last_states, localVars, countVars, histVars, cmdVars,
                   mqttVars, dispatchVars>>

\* _disconnect: shutdown() returned; self.client = None and the lock is released
ClientShutdownDone(t) ==
    /\ Resume(t, "client_shutdown")
    /\ client' = "None"
    /\ lock' = Release(lock, t)
    /\ Goto(t, AfterDisconnect(t))
    /\ UNCHANGED <<was_online, running, request_in_progress, cycle_time, observe_wait,
                   device, last_states, localVars, countVars, histVars, cmdVars, extVars>>

\* ensure_connected_client with _connect up to its first await: the loop test,
\* "if self.client" and "async with self.client_connection_lock"
EnsureConnected(t) ==
    /\ At(t, "ensure_connected")
    /\ IF client # "None"
       THEN lock' = lock /\ Goto(t, "wire")
       ELSE /\ lock' = Append(lock, t)
            /\ Goto(t, IF CanAcquire(lock) THEN "create" ELSE "connect_wait")
    /\ UNCHANGED <<client, was_online, running, request_in_progress, cycle_time,
                   observe_wait, device, last_states, localVars, countVars, histVars, cmdVars,
                   extVars>>

\* _connect: the lock is handed to the waiting task, which calls CoAPClient.create
ConnectWake(t) ==
    /\ Resume(t, "connect_wait")
    /\ Head(lock) = t
    /\ Goto(t, "create")
    /\ UNCHANGED <<deviceVars, last_states, localVars, countVars, histVars, cmdVars,
                   extVars>>

\* _connect: CoAPClient.create returned a client, timed out or raised
\* NetworkError.  "self.client = ..." over a client drops the one held before:
\* a get_status pending on it is then a request of a client nobody holds.
CreateDone(t) ==
    /\ Resume(t, "create")
    /\ \E outcome \in {"ok", "timeout", "network"} :
          /\ client' = IF outcome = "ok" THEN "CoAPClient" ELSE client
          /\ requestOn' = IF outcome = "ok" /\ client # "None" /\ requestOn = "held"
                          THEN "orphan" ELSE requestOn
          /\ lock' = IF outcome = "network" THEN lock ELSE Release(lock, t)
          /\ Goto(t, IF outcome = "network" THEN "connect_backoff" ELSE AfterConnect)
    /\ UNCHANGED <<was_online, running, request_in_progress, cycle_time, observe_wait,
                   device, last_states, localVars, countVars, histVars, cmdVars,
                   mqttVars, dispatchVars>>

\* _connect: the sleep(10) after a NetworkError is over
BackoffDone(t) ==
    /\ Resume(t, "connect_backoff")
    /\ lock' = Release(lock, t)
    /\ Goto(t, AfterConnect)
    /\ UNCHANGED <<client, was_online, running, request_in_progress, cycle_time,
                   observe_wait, device, last_states, localVars, countVars, histVars, cmdVars,
                   extVars>>

\* _get_status / _set_control_values: the assertion and the call on self.client.
\* A failed assertion ends the observe task; send_update catches it.  A
\* get_status is pending on the client the bridge holds at the call; on a client
\* whose shutdown() is in progress it is a request of a client shut down.
Wire(t) ==
    /\ At(t, "wire")
    /\ IF client = "None"
       THEN assertFailed' = TRUE /\ Goto(t, IF t = Obs THEN "crashed" ELSE "idle")
       ELSE assertFailed' = assertFailed /\ Goto(t, WireOp(t))
    /\ pending' = IF client = "None" THEN <<>> ELSE pending
    /\ upd' = IF t = Upd /\ client # "None"
              THEN [upd EXCEPT !.sent = Append(@, Head(pending))] ELSE upd
    /\ requestOn' = IF t = Obs /\ client # "None"
                    THEN (IF \E d \in Tasks : pc[d] = "client_shutdown"
                          THEN "shut" ELSE "held")
                    ELSE requestOn
    /\ repollDue' = IF t = Obs /\ client # "None" THEN FALSE ELSE repollDue
    /\ UNCHANGED <<deviceVars, last_states, status, max_age, pretty_state, idx,
                   countVars, statusCalls, lastPublished, pollOutcome, onlineBefore,
                   pollPubs, attrCalls, firstCall, prevPretty, failedAttr, wdHist,
                   message, siblings,
                   mqttVars, dispatchVars>>

(***************************************************************************)
(* coap_bridge.py: DeviceBridge.observe                                    *)
(***************************************************************************)
\* observe: the task starts and calls signal_offline
ObserveStart ==
    /\ Resume(Obs, "start")
    /\ Goto(Obs, "signal_offline")
    /\ UNCHANGED <<deviceVars, last_states, localVars, countVars, histVars, cmdVars,
                   extVars>>

\* update_status_from_device up to ensure_connected_client: the guard, and
\* _get_status creating the watchdog task
UpdateStatus ==
    /\ At(Obs, "update_status")
    /\ IF request_in_progress
       THEN /\ observe_wait' = "pending"
            /\ Goto(Obs, "sleep")
            /\ UNCHANGED <<request_in_progress, nPoll, pollOutcome, pollPubs>>
       ELSE /\ request_in_progress' = TRUE
            /\ nPoll' = nPoll + 1
            /\ pollOutcome' = "none"
            /\ pollPubs' = <<>>
            /\ pc' = [pc EXCEPT ![Obs] = "ensure_connected", ![Wd(nPoll + 1)] = "armed"]
            /\ cur' = Obs
            /\ observe_wait' = observe_wait
    /\ UNCHANGED <<client, was_online, running, cycle_time, device, lock,
                   last_states, localVars, nUpdates, pubFails, budget, statusCalls,
                   lastPublished, onlineBefore, attrCalls, firstCall, prevPretty,
                   failedAttr, wdHist, assertFailed, cmdVars, extVars>>

\* Task.cancel() on watchdog w: a finished task is left alone; a suspended one
\* ends where it is, leaving the lock queue (or releasing the lock it holds)
Cancelled(p) == IF p = "done" THEN "done" ELSE "cancelled"

\* _get_status: client.get_status() returned or raised.  An error that is not
\* caught leaves update_status_from_device and observe: the task ends.
GetStatusDone ==
    /\ Resume(Obs, "get_status")
    /\ \E outcome \in budget.outcomes :
          /\ pollOutcome' = outcome
          /\ requestOn' = "none"
          /\ IF outcome = "ok"
             THEN /\ \E s \in budget.statuses, ma \in budget.ages :
                        status' = s /\ max_age' = ma
                  /\ pc' = [pc EXCEPT ![Obs] = "signal_state",
                                      ![Wd(nPoll)] = Cancelled(pc[Wd(nPoll)])]
                  /\ cur' = Obs
                  /\ lock' = Release(lock, Wd(nPoll))
                  /\ \E delivered \in BOOLEAN :
                        lastPublished' =
                            IF pc[Wd(nPoll)] = "publish_offline" /\ delivered
                            THEN "OFFLINE" ELSE lastPublished
             ELSE /\ status' = EmptyDict
                  /\ max_age' = 0
                  /\ Goto(Obs, CASE outcome = "shutdown" -> "signal_state"
                                  [] outcome = "invalid" -> "disconnect"
                                  [] outcome = "raised" -> "crashed")
                  /\ UNCHANGED <<lock, lastPublished>>
    /\ UNCHANGED <<client, was_online, running, request_in_progress, cycle_time,
                   observe_wait, device, last_states, pretty_state, idx, pending,
                   countVars, statusCalls, onlineBefore, pollPubs, attrCalls,
                   firstCall, prevPretty, failedAttr, wdHist, assertFailed, cmdVars,
                   mqttVars, dispatchVars>>

\* signal_online: "if self.was_online: return"
SignalOnlineGate(w) == ~w

\* (mutant) publish_state with its first two publishes swapped
StateTopicsSwapped == <<"raw_state", "last_update">>

\* publish_state: the two topics published by every call, in order
StateTopics == <<"last_update", "raw_state">>

\* publish_state up to the await of its first _publish
PublishState ==
    /\ attrCalls' = {}
    /\ Goto(Obs, "pub_last_update")

\* signal_state up to its first await: state.update(status), signal_online and,
\* when that publishes nothing, publish_state
SignalState ==
    /\ At(Obs, "signal_state")
    /\ device' = [device EXCEPT !.raw = status]
    /\ onlineBefore' = was_online
    /\ IF SignalOnlineGate(was_online)
       THEN /\ was_online' = TRUE
            /\ statusCalls' = Append(statusCalls, "ONLINE")
            /\ pollPubs' = Append(pollPubs, "ONLINE")
            /\ Goto(Obs, "publish_online")
            /\ attrCalls' = attrCalls
       ELSE /\ PublishState
            /\ pollPubs' = Append(pollPubs, StateTopics[1])
            /\ UNCHANGED <<was_online, statusCalls>>
    /\ UNCHANGED <<client, running, request_in_progress, cycle_time, observe_wait, lock,
                   last_states, localVars, countVars, lastPublished, pollOutcome,
                   firstCall, prevPretty, failedAttr, wdHist, assertFailed, cmdVars,
                   extVars>>

\* signal_online: publish_online returned; signal_state calls publish_state
PublishOnlineDone ==
    /\ Resume(Obs, "publish_online")
    /\ \E ok \in BOOLEAN :
          /\ Published(ok)
          /\ lastPublished' = IF ok THEN "ONLINE" ELSE lastPublished
    /\ PublishState
    /\ pollPubs' = Append(pollPubs, StateTopics[1])
    /\ UNCHANGED <<deviceVars, last_states, localVars, nPoll, nUpdates, budget,
                   statusCalls, pollOutcome, onlineBefore, firstCall, prevPretty,
                   failedAttr, wdHist, assertFailed, cmdVars, extVars>>

(***************************************************************************)
(* mqtt.py: Connection.publish_state, called by signal_state               *)
(***************************************************************************)
\* the first publish returned; the second one is issued
PubLastUpdateDone ==
    /\ Resume(Obs, "pub_last_update")
    /\ \E ok \in BOOLEAN : Published(ok)
    /\ pollPubs' = Append(pollPubs, StateTopics[2])
    /\ Goto(Obs, "pub_raw_state")
    /\ UNCHANGED <<deviceVars, last_states, localVars, nPoll, nUpdates, budget,
                   statusCalls, lastPublished, pollOutcome, onlineBefore, attrCalls,
                   firstCall, prevPretty, failedAttr, wdHist, assertFailed, cmdVars,
                   extVars>>

\* (mutant) publish_state that does not store what it published
CacheKept(cache, pretty) == cache

\* last_state.get(key, None) on self.last_states.get(host, {})
LastValue(cache, key) ==
    IF host \in DOMAIN cache /\ key \in DOMAIN cache[host] THEN cache[host][key] ELSE VNone

\* "if value == last_state.get(key, None): continue"
Skipped(pretty, cache, key) == pretty[key] = LastValue(cache, key)

\* self.last_states[host] = pretty_state
CacheUpdate(cache, pretty) == [h \in (DOMAIN cache) \cup {host} |-> pretty]

\* (mutant) self.cycle_time = max_age - 10
CycleTimeNoFloor(age) == age - 10

\* self.cycle_time = max(10, max_age - 10)
CycleTime(age) == IF age - 10 > 10 THEN age - 10 ELSE 10

\* (mutant) update_status_from_device that returns without resetting its flag
InProgressKept == TRUE

\* update_status_from_device: "self.request_in_progress = False", its last
\* statement, reached only when nothing raised before it
InProgressAfterPoll == FALSE

\* the loop of publish_state from position i to the next _publish of an
\* attribute; with none left: the cache update, the return to
\* update_status_from_device, its last two assignments, and _cycle_sleep
\* creating and awaiting the sleep task
PubLoop(i, pretty) ==
    LET changed == { n \in i..Len(properties) :
                        ~Skipped(pretty, last_states, properties[n]) }
    IN  IF changed # {}
        THEN LET k == CHOOSE n \in changed : \A m \in changed : n <= m
             IN  /\ idx' = k
                 /\ attrCalls' = attrCalls \cup {properties[k]}
                 /\ pollPubs' = Append(pollPubs, "attr")
                 /\ Goto(Obs, "pub_attr")
                 /\ UNCHANGED <<last_states, prevPretty, cycle_time,
                                request_in_progress, observe_wait>>
        ELSE /\ last_states' = CacheUpdate(last_states, pretty)
             /\ prevPretty' = <<pretty>>
             /\ cycle_time' = CycleTime(max_age)
             /\ request_in_progress' = InProgressAfterPoll
             /\ observe_wait' = "pending"
             /\ Goto(Obs, "sleep")
             /\ idx' = 0
             /\ UNCHANGED <<attrCalls, pollPubs>>

\* the publish of raw_state returned; pretty_state = state.as_dict() and the
\* loop over its items
PubRawStateDone ==
    /\ Resume(Obs, "pub_raw_state")
    /\ \E ok \in BOOLEAN : Published(ok)
    /\ pretty_state' = as_dict(device.raw)
    /\ firstCall' = (host \notin DOMAIN last_states)
    /\ PubLoop(1, as_dict(device.raw))
    /\ UNCHANGED <<client, was_online, running, device, lock, status, max_age, pending,
                   nPoll, nUpdates, budget, statusCalls, lastPublished, pollOutcome,
                   onlineBefore, failedAttr, wdHist, assertFailed, cmdVars, extVars>>

\* the publish of attribute properties[idx] returned; the loop goes on
PubAttrDone ==
    /\ Resume(Obs, "pub_attr")
    /\ \E ok \in BOOLEAN :
          /\ Published(ok)
          /\ failedAttr' =
                IF ok
                THEN [k \in (DOMAIN failedAttr) \ {properties[idx]} |-> failedAttr[k]]
                ELSE [k \in (DOMAIN failedAttr) \cup {properties[idx]} |->
                        IF k = properties[idx] THEN pretty_state[k] ELSE failedAttr[k]]
    /\ PubLoop(idx + 1, pretty_state)
    /\ UNCHANGED <<client, was_online, running, device, lock, status, max_age,
                   pretty_state, pending, nPoll, nUpdates, budget, statusCalls,
                   lastPublished, pollOutcome, onlineBefore, firstCall, wdHist,
                   assertFailed, cmdVars, extVars>>

\* _cycle_sleep: cycle_time elapsed or the sleep task was cancelled; the loop of
\* observe calls update_status_from_device again.  Once the polls of the run
\* are used up the model follows the loop no further ("stopped").
CycleSleepDone ==
    /\ Resume(Obs, "sleep")
    /\ observe_wait' = "done"
    /\ Goto(Obs, IF nPoll < budget.polls THEN "update_status" ELSE "stopped")
    /\ UNCHANGED <<client, was_online, running, request_in_progress, cycle_time,
                   device, lock, last_states, localVars, countVars, histVars, cmdVars,
                   extVars>>

(***************************************************************************)
(* coap_bridge.py: _request_watchdog, send_update, shutdown                *)
(***************************************************************************)
\* the positions of the observe task inside _get_status, before it returned
InGetStatus == {"connect_wait", "create", "connect_backoff", "get_status"}

\* _request_watchdog: sleep(status_timeout) is over without a cancel
WatchdogExpire(w) ==
    /\ Resume(w, "armed")
    /\ wdHist' = [wdHist EXCEPT ![w] =
                    [inPoll |-> (w = Wd(nPoll) /\ pc[Obs] \in InGetStatus),
                     sawOnline |-> was_online, calls |-> 0]]
    /\ Goto(w, "signal_offline")
    /\ UNCHANGED <<deviceVars, last_states, localVars, countVars, statusCalls,
                   lastPublished, pollOutcome, onlineBefore, pollPubs, attrCalls,
                   firstCall, prevPretty, failedAttr, assertFailed, cmdVars, extVars>>

\* observe_wait.cancel()
CancelSleep(w) == IF w = "pending" THEN "cancelled" ELSE w

\* send_update(property_name, new_value) up to its first await: the property
\* test, setattr, get_commands
send_update(u) ==
    LET d == IF u[1] \in PropertyNames THEN SetAttr(device, u[1], u[2]) ELSE device
    IN  /\ device' = Device(d.raw, <<>>)
        /\ pending' = d.commands
        /\ upd' = [prop |-> u[1], value |-> u[2], before |-> device.raw,
                   after |-> d.raw, drained |-> d.commands, sent |-> <<>>,
                   failed |-> FALSE]
        /\ Goto(Upd, IF d.commands = <<>> THEN "idle" ELSE "ensure_connected")

\* a command message for the bridge's host arrives: send_update is called
SendUpdate ==
    /\ Resume(Upd, "idle")
    /\ nUpdates < budget.updates
    /\ nUpdates' = nUpdates + 1
    /\ \E u \in Updates : send_update(u)
    /\ UNCHANGED <<client, was_online, running, request_in_progress, cycle_time,
                   observe_wait, lock, last_states, status, max_age, pretty_state, idx,
                   nPoll, pubFails, budget, histVars, repollDue, message, siblings,
                   extVars>>

\* MultipleDeviceBridge.send_update: self.clients[device] raises KeyError for a
\* host without bridge
Configured(target_device) == target_device = <<host>>

\* Connection.observe: the body of "async for message" for one message, up to
\* the first await of send_update.  A failed assertion and a KeyError are caught
\* by neither try of observe: the subscriber task ends.
OnMessage ==
    /\ Resume(Upd, "idle")
    /\ nUpdates < budget.updates
    /\ nUpdates' = nUpdates + 1
    /\ \E m \in Messages :
          LET matches == fullmatch(m.topic)
          IN  /\ message' = m
              /\ IF ~Truthy(m.payload)
                 THEN /\ Goto(Upd, "idle")
                      /\ UNCHANGED <<device, pending, upd>>
                 ELSE IF ~matches.ok \/ m.payload.t # "bytes"
                         \/ ~Configured(matches.device)
                 THEN /\ Goto(Upd, "crashed")
                      /\ UNCHANGED <<device, pending, upd>>
                 ELSE send_update(<<Joined(matches.property), m.payload.s>>)
    /\ UNCHANGED <<client, was_online, running, request_in_progress, cycle_time,
                   observe_wait, lock, last_states, status, max_age, pretty_state, idx,
                   nPoll, pubFails, budget, histVars, repollDue, siblings, extVars>>

\* (mutant) a send loop that goes on with the next command after an error
KeepQueued(cmds) == Tail(cmds)

\* send_update: an exception of _set_control_values leaves the for loop; the
\* commands not yet sent are dropped
AfterFailedSend(cmds) == <<>>

\* send_update: set_control_values returned or raised; after the last command
\* the sleep of the observe loop is cancelled
SetControlDone ==
    /\ Resume(Upd, "set_control_values")
    /\ \E sent \in BOOLEAN :
          IF sent
          THEN /\ pending' = Tail(pending)
               /\ observe_wait' = IF Tail(pending) = <<>>
                                  THEN CancelSleep(observe_wait) ELSE observe_wait
               /\ repollDue' = (repollDue \/ Tail(pending) = <<>>)
               /\ upd' = upd
               /\ Goto(Upd, IF Tail(pending) = <<>> THEN "idle" ELSE "ensure_connected")
          ELSE /\ pending' = AfterFailedSend(pending)
               /\ observe_wait' = observe_wait
               /\ repollDue' = repollDue
               /\ upd' = [upd EXCEPT !.failed = TRUE]
               /\ Goto(Upd, IF AfterFailedSend(pending) = <<>>
                            THEN "idle" ELSE "ensure_connected")
    /\ UNCHANGED <<client, was_online, running, request_in_progress, cycle_time, device,
                   lock, last_states, status, max_age, pretty_state, idx, countVars,
                   histVars, message, siblings, extVars>>

\* _execute_many: the TaskGroup, once a task of it has ended with an error,
\* cancels the tasks that still run
TaskGroupAbort ==
    /\ cur = NoTask
    /\ pc[Obs] = "crashed"
    /\ \E h \in Siblings : siblings[h] = "running"
    /\ siblings' = [h \in Siblings |-> "cancelled"]
    /\ UNCHANGED <<deviceVars, last_states, pc, cur, localVars, countVars, histVars,
                   upd, repollDue, message, extVars>>

\* the member names of LampMode
LampModeNames == {"Off", "Humidity", "Warm", "Dawn", "Calm", "Breath"}

\* (property_name, value) of the writes on a device by itself
Writes == Commands \cup { <<"lamp_mode", m>> : m \in LampModeNames }

\* setattr(device, property_name, value) on a device by itself
Write ==
    /\ device.commands = <<>>
    /\ nUpdates < budget.updates
    /\ nUpdates' = nUpdates + 1
    /\ \E u \in Writes :
          LET d == IF u[1] \in PropertyNames THEN SetAttr(device, u[1], u[2]) ELSE device
          IN  /\ device' = d
              /\ upd' = [prop |-> u[1], value |-> u[2], before |-> device.raw,
                         after |-> d.raw, drained |-> d.commands, sent |-> <<>>,
                   failed |-> FALSE]
    /\ UNCHANGED <<client, was_online, running, request_in_progress, cycle_time,
                   observe_wait, lock, last_states, pc, cur, localVars, nPoll, pubFails,
                   budget, histVars, repollDue, message, siblings, extVars>>

\* CoapDevice.get_commands(): the queue is handed out and emptied
GetCommands ==
    /\ device.commands # <<>>
    /\ device' = Device(device.raw, <<>>)
    /\ UNCHANGED <<client, was_online, running, request_in_progress, cycle_time,
                   observe_wait, lock, last_states, pc, cur, localVars, countVars,
                   histVars, cmdVars, extVars>>

\* shutdown: running = False, then _disconnect
Shutdown ==
    /\ Resume(Shut, "idle")
    /\ running' = FALSE
    /\ Goto(Shut, "disconnect")
    /\ UNCHANGED <<client, was_online, request_in_progress, cycle_time, observe_wait,
                   device, lock, last_states, localVars, countVars, histVars, cmdVars,
                   extVars>>

(***************************************************************************)
(* mqtt.py: Connection._connect, _disconnect, _publish and the loop of     *)
(* observe, called by several tasks on one Connection                      *)
(***************************************************************************)
\* (mutant) _connect without "if self.connected: return"
ConnectGateOpen(c) == TRUE

\* _connect: "if self.connected: return" lets the call reach __aenter__ iff the
\* connection is not marked connected
ConnectGate(c) == ~c

\* (mutant) "except MqttCodeError"
CaughtCodeOnly(e) == e = "MqttCodeError"

\* "except (MqttCodeError, TypeError)" of _publish and of observe
Caught(e) == e \in {"MqttCodeError", "TypeError"}

\* how client.publish ends: it returns, the broker refuses (MqttCodeError), the
\* payload cannot be serialized (TypeError), or another MqttError is raised
PublishOutcomes == {"ok", "MqttCodeError", "TypeError", "MqttError"}

\* how client.subscribe / the iteration of client.messages ends
ListenOutcomes == {"MqttCodeError", "TypeError", "MqttError"}

\* what task t awaits once _connect returned
AfterMqttConnect(t) == IF t = Subscriber THEN "listen" ELSE "publish"

\* _connect inside the lock, the tasks of l waiting behind t
MqttConnectLocked(t, l, c) ==
    IF ConnectGate(c)
    THEN /\ connection_lock' = <<t>> \o l
         /\ mq' = [mq EXCEPT ![t] = "aenter"]
    ELSE /\ connection_lock' = l
         /\ mq' = [mq EXCEPT ![t] = AfterMqttConnect(t)]

\* task t calls _connect: "async with self.connection_lock"
MqttConnect(t, l, c) ==
    IF CanAcquire(l)
    THEN MqttConnectLocked(t, l, c)
    ELSE /\ connection_lock' = Append(l, t)
         /\ mq' = [mq EXCEPT ![t] = "connect_wait"]

\* _disconnect returned to task t: _publish returns to the bridge; the loop of
\* observe calls _connect again
MqttReturn(t, l, c) ==
    IF t = Subscriber /\ nPublish[t] < MaxPublishes
    THEN /\ nPublish' = [nPublish EXCEPT ![t] = @ + 1]
         /\ MqttConnect(t, l, c)
    ELSE /\ nPublish' = nPublish
         /\ connection_lock' = l
         /\ mq' = [mq EXCEPT ![t] = IF t = Subscriber THEN "stopped" ELSE "idle"]

\* _disconnect inside the lock: "if not self.connected: return", else __aexit__
MqttDisconnectLocked(t, l, c) ==
    IF ~c
    THEN MqttReturn(t, l, c)
    ELSE /\ nPublish' = nPublish
         /\ connection_lock' = <<t>> \o l
         /\ mq' = [mq EXCEPT ![t] = "aexit"]

\* task t calls _disconnect: "async with self.connection_lock"
MqttDisconnect(t, l, c) ==
    IF CanAcquire(l)
    THEN MqttDisconnectLocked(t, l, c)
    ELSE /\ nPublish' = nPublish
         /\ connection_lock' = Append(l, t)
         /\ mq' = [mq EXCEPT ![t] = "disconnect_wait"]

\* a bridge task calls _publish, which calls _connect
Publish(t) ==
    /\ mq[t] = "idle"
    /\ nPublish[t] < MaxPublishes
    /\ nPublish' = [nPublish EXCEPT ![t] = @ + 1]
    /\ MqttConnect(t, connection_lock, connected)
    /\ UNCHANGED <<connected, result, entries, bridgeVars, dispatchVars, requestOn>>

\* Connection.observe starts: the first _connect of its loop
Subscribe ==
    /\ mq[Subscriber] = "idle"
    /\ nPublish' = [nPublish EXCEPT ![Subscriber] = @ + 1]
    /\ MqttConnect(Subscriber, connection_lock, connected)
    /\ UNCHANGED <<connected, result, entries, bridgeVars, dispatchVars, requestOn>>

\* _connect: the lock is handed to the waiting task
MqttConnectWake(t) ==
    /\ mq[t] = "connect_wait"
    /\ Head(connection_lock) = t
    /\ MqttConnectLocked(t, Tail(connection_lock), connected)
    /\ UNCHANGED <<connected, nPublish, result, entries, bridgeVars, dispatchVars,
                   requestOn>>

\* _connect: client.__aenter__() returned, or raised: the error leaves _connect
\* and _publish (observe), connected stays False
AenterDone(t) ==
    /\ mq[t] = "aenter"
    /\ \E ok \in BOOLEAN :
          /\ connected' = (ok \/ connected)
          /\ entries' = IF ok THEN entries + 1 ELSE entries
          /\ result' = IF ok THEN result ELSE [result EXCEPT ![t] = "ConnectError"]
          /\ mq' = [mq EXCEPT ![t] = IF ok THEN AfterMqttConnect(t) ELSE "escaped"]
    /\ connection_lock' = Tail(connection_lock)
    /\ UNCHANGED <<nPublish, bridgeVars, dispatchVars, requestOn>>

\* _publish: client.publish returned or raised; a caught error calls _disconnect
PublishDone(t) ==
    /\ mq[t] = "publish"
    /\ \E e \in PublishOutcomes :
          /\ result' = [result EXCEPT ![t] = e]
          /\ IF e # "ok" /\ Caught(e)
             THEN MqttDisconnect(t, connection_lock, connected)
             ELSE /\ mq' = [mq EXCEPT ![t] = IF e = "ok" THEN "idle" ELSE "escaped"]
                  /\ UNCHANGED <<nPublish, connection_lock>>
    /\ UNCHANGED <<connected, entries, bridgeVars, dispatchVars, requestOn>>

\* observe: client.subscribe or the iteration of the messages raised
ListenDone ==
    /\ mq[Subscriber] = "listen"
    /\ \E e \in ListenOutcomes :
          /\ result' = [result EXCEPT ![Subscriber] = e]
          /\ IF Caught(e)
             THEN MqttDisconnect(Subscriber, connection_lock, connected)
             ELSE /\ mq' = [mq EXCEPT ![Subscriber] = "escaped"]
                  /\ UNCHANGED <<nPublish, connection_lock>>
    /\ UNCHANGED <<connected, entries, bridgeVars, dispatchVars, requestOn>>

\* _disconnect: the lock is handed to the waiting task
MqttDisconnectWake(t) ==
    /\ mq[t] = "disconnect_wait"
    /\ Head(connection_lock) = t
    /\ MqttDisconnectLocked(t, Tail(connection_lock), connected)
    /\ UNCHANGED <<connected, result, entries, bridgeVars, dispatchVars, requestOn>>

\* _disconnect: client.__aexit__ returned or raised MqttCodeError; either way
\* "self.connected = False" and the lock is released
AexitDone(t) ==
    /\ mq[t] = "aexit"
    /\ connected' = FALSE
    /\ entries' = 0
    /\ MqttReturn(t, Tail(connection_lock), FALSE)
    /\ UNCHANGED <<result, bridgeVars, dispatchVars, requestOn>>

(***************************************************************************)
(* mqtt.py: the loop of Connection.observe over client.messages, with      *)
(* MultipleDeviceBridge.send_update dispatching to the bridge of the host  *)
(***************************************************************************)
\* the command message for property mode of host h
CommandFor(h) == [topic |-> <<root, h, "set", "mode">>, payload |-> VBytes("Auto")]

\* the broker delivers a command message for host h: it waits in
\* client.messages until the loop of observe takes it
Arrive(h) ==
    /\ nUpdates < budget.updates
    /\ nUpdates' = nUpdates + 1
    /\ queued' = Append(queued, h)
    /\ UNCHANGED <<deviceVars, last_states, pc, cur, localVars, nPoll, pubFails, budget,
                   histVars, cmdVars, mqttVars, sentTo, requestOn>>

\* observe: "async for message" takes the next message and awaits
\* publisher.send_update, that is send_update of the bridge of the host
Dispatch ==
    /\ Resume(Upd, "idle")
    /\ queued # <<>>
    /\ queued' = Tail(queued)
    /\ message' = CommandFor(Head(queued))
    /\ IF Head(queued) = host
       THEN send_update(<<"mode", "Auto">>)
       ELSE /\ Goto(Upd, "sibling_update")
            /\ UNCHANGED <<device, pending, upd>>
    /\ UNCHANGED <<client, was_online, running, request_in_progress, cycle_time,
                   observe_wait, lock, last_states, status, max_age, pretty_state, idx,
                   countVars, histVars, repollDue, siblings, mqttVars, sentTo,
                   requestOn>>

\* send_update of the bridge of a sibling host, whose device is reachable,
\* returned: the command was sent
SiblingUpdateDone ==
    /\ Resume(Upd, "sibling_update")
    /\ sentTo' = sentTo \cup {message.topic[2]}
    /\ Goto(Upd, "idle")
    /\ UNCHANGED <<deviceVars, last_states, localVars, countVars, histVars, cmdVars,
                   mqttVars, queued, requestOn>>

Publishers == {Obs} \cup Watchdogs
Disconnecters == {Obs, Shut} \cup Watchdogs
Connecters == {Obs, Upd}

Next ==
    \/ ObserveStart
    \/ UpdateStatus
    \/ GetStatusDone
    \/ SignalState
    \/ PublishOnlineDone
    \/ PubLastUpdateDone
    \/ PubRawStateDone
    \/ PubAttrDone
    \/ CycleSleepDone
    \/ SendUpdate
    \/ SetControlDone
    \/ Shutdown
    \/ \E w \in Watchdogs : WatchdogExpire(w)
    \/ \E t \in Publishers : SignalOffline(t)
    \/ \E t \in Publishers : PublishOfflineDone(t)
    \/ \E t \in Disconnecters : Disconnect(t)
    \/ \E t \in Disconnecters : DisconnectWake(t)
    \/ \E t \in Disconnecters : DisconnectLocked(t)
    \/ \E t \in Disconnecters : ClientShutdownDone(t)
    \/ \E t \in Connecters : EnsureConnected(t)
    \/ \E t \in Connecters : ConnectWake(t)
    \/ \E t \in Connecters : CreateDone(t)
    \/ \E t \in Connecters : BackoffDone(t)
    \/ \E t \in Connecters : Wire(t)

Spec == Init /\ [][Next]_vars

\* the observe loop and the watchdogs, without commands and without shutdown
NextObserve ==
    \/ ObserveStart
    \/ UpdateStatus
    \/ GetStatusDone
    \/ SignalState
    \/ PublishOnlineDone
    \/ PubLastUpdateDone
    \/ PubRawStateDone
    \/ PubAttrDone
    \/ CycleSleepDone
    \/ \E w \in Watchdogs : WatchdogExpire(w)
    \/ \E t \in Publishers : SignalOffline(t)
    \/ \E t \in Publishers : PublishOfflineDone(t)
    \/ \E t \in Publishers : Disconnect(t)
    \/ \E t \in Publishers : DisconnectWake(t)
    \/ \E t \in Publishers : DisconnectLocked(t)
    \/ \E t \in Publishers : ClientShutdownDone(t)
    \/ EnsureConnected(Obs)
    \/ CreateDone(Obs)
    \/ BackoffDone(Obs)
    \/ Wire(Obs)

SpecObserve == InitObserve /\ [][NextObserve]_vars

\* the subscriber loop (Connection.observe) and send_update alone
NextCommands ==
    \/ OnMessage
    \/ EnsureConnected(Upd)
    \/ CreateDone(Upd)
    \/ BackoffDone(Upd)
    \/ Wire(Upd)
    \/ SetControlDone

SpecCommands == InitCommands /\ [][NextCommands]_vars

\* a bridge observing inside the TaskGroup of its MultipleDeviceBridge
NextGroup == NextObserve \/ TaskGroupAbort

SpecGroup == InitGroup /\ [][NextGroup]_vars

\* the typed view of a device: writes and get_commands
NextDevice == Write \/ GetCommands

SpecDevice == InitDevice /\ [][NextDevice]_vars

\* concurrent publishers and the subscriber on one Connection
NextMqtt ==
    \/ Subscribe
    \/ ListenDone
    \/ \E t \in MqttPublishers : Publish(t)
    \/ \E t \in MqttPublishers : PublishDone(t)
    \/ \E t \in MqttTasks : MqttConnectWake(t)
    \/ \E t \in MqttTasks : AenterDone(t)
    \/ \E t \in MqttTasks : MqttDisconnectWake(t)
    \/ \E t \in MqttTasks : AexitDone(t)

SpecMqtt == InitMqtt /\ [][NextMqtt]_vars

\* the steps of the observe task but the return of get_status
ObserveStep ==
    \/ ObserveStart
    \/ UpdateStatus
    \/ SignalState
    \/ PublishOnlineDone
    \/ PubLastUpdateDone
    \/ PubRawStateDone
    \/ PubAttrDone
    \/ CycleSleepDone
    \/ SignalOffline(Obs)
    \/ PublishOfflineDone(Obs)
    \/ Disconnect(Obs)
    \/ DisconnectWake(Obs)
    \/ DisconnectLocked(Obs)
    \/ ClientShutdownDone(Obs)
    \/ Wire(Obs)

\* the steps of ensure_connected_client in task t
ConnectStep(t) ==
    \/ EnsureConnected(t)
    \/ ConnectWake(t)
    \/ CreateDone(t)
    \/ BackoffDone(t)

\* the steps of the watchdog task w, from the end of its sleep
WatchdogStep(w) ==
    \/ WatchdogExpire(w)
    \/ SignalOffline(w)
    \/ PublishOfflineDone(w)
    \/ Disconnect(w)
    \/ DisconnectWake(w)
    \/ DisconnectLocked(w)
    \/ ClientShutdownDone(w)

\* a bridge observing while commands arrive for it
NextRecover ==
    \/ ObserveStep
    \/ GetStatusDone
    \/ SendUpdate
    \/ Wire(Upd)
    \/ SetControlDone
    \/ \E t \in Connecters : ConnectStep(t)
    \/ \E w \in Watchdogs : WatchdogStep(w)

\* the event loop runs every task that can go on, timers end, and the calls of
\* the libraries return, with two exceptions: a get_status may stay pending
\* for ever unless its client is shut down, which ends it with LibraryShutdown;
\* and the device answers a connection attempt again and again
FairRecover ==
    /\ WF_vars(ObserveStep)
    /\ WF_vars(GetStatusDone /\ requestOn = "shut")
    /\ WF_vars(Wire(Upd) \/ SetControlDone)
    /\ \A t \in Connecters : WF_vars(ConnectStep(t))
    /\ \A t \in Connecters : SF_vars(CreateDone(t) /\ client' = "CoAPClient")
    /\ \A w \in Watchdogs : WF_vars(WatchdogStep(w))

SpecRecover == InitRecover /\ [][NextRecover]_vars /\ FairRecover

\* the observe loop and its watchdogs under the same fairness, without commands
SpecRecoverAlone ==
    InitRecover /\ [][NextRecover /\ nUpdates' = 0]_vars /\ FairRecover

\* the subscriber loop taking the queued command messages one at a time
NextDispatch ==
    \/ \E h \in {host, "h2"} : Arrive(h)
    \/ Dispatch
    \/ SiblingUpdateDone
    \/ EnsureConnected(Upd)
    \/ CreateDone(Upd)
    \/ BackoffDone(Upd)
    \/ Wire(Upd)
    \/ SetControlDone

\* the event loop runs the subscriber task whenever it can go on, and every
\* call of the CoAP library returns; nothing makes a device reachable
FairDispatch ==
    /\ WF_vars(Dispatch)
    /\ WF_vars(SiblingUpdateDone)
    /\ WF_vars(EnsureConnected(Upd))
    /\ WF_vars(CreateDone(Upd))
    /\ WF_vars(BackoffDone(Upd))
    /\ WF_vars(Wire(Upd))
    /\ WF_vars(SetControlDone)

SpecDispatch == InitDispatch /\ [][NextDispatch]_vars /\ FairDispatch

\* the positions are consistent with who is running
TypeOK ==
    /\ cur \in Tasks \cup {NoTask}
    /\ \A t \in Tasks : (pc[t] \notin Waiting) <=> (cur = t)
    /\ client \in {"None", "CoAPClient"}
    /\ device.commands = <<>>

(***************************************************************************)
(* Properties                                                              *)
(***************************************************************************)
\* the status publishes in flight
StatusInFlight == \E t \in Publishers : pc[t] \in {"publish_offline", "publish_online"}

\* C1: the status publish calls issued for the host start with OFFLINE and
\* alternate: no value is issued twice in a row, whichever task calls
\* signal_offline or signal_online and however often
C1_StatusCallsAlternate ==
    \A n \in 1..Len(statusCalls) :
        statusCalls[n] = IF n % 2 = 1 THEN "OFFLINE" ELSE "ONLINE"

\* a watchdog called signal_offline when OFFLINE was already the last call, after
\* the status had gone OFFLINE, ONLINE, OFFLINE
C1_Witness ==
    /\ Len(statusCalls) >= 3
    /\ \E w \in Watchdogs : pc[w] = "done" /\ ~wdHist[w].sawOnline /\ wdHist[w].calls = 0

\* C2: a publish_online call is in flight only in a poll whose get_status
\* returned a status
C2_OnlineOnlyAfterSuccess == pc[Obs] = "publish_online" => pollOutcome = "ok"

\* the positions of a watchdog between its expiry and its end
WdActive ==
    { "signal_offline", "publish_offline", "disconnect", "disconnect_wait",
      "disconnect_locked", "client_shutdown" }

\* C3: a watchdog that expired while its poll's get_status had not completed
\* runs to its end, where the handle is None, and has then issued OFFLINE once if
\* the last status was ONLINE and not at all otherwise
C3_WatchdogClearsHandle ==
    [][\A w \in Watchdogs :
          (wdHist[w].inPoll /\ pc[w] \in WdActive /\ pc'[w] \notin WdActive)
          => /\ pc'[w] = "done"
             /\ client' = "None"
             /\ wdHist'[w].calls = IF wdHist[w].sawOnline THEN 1 ELSE 0]_vars

\* C4: neither assertion "Client is connected now" fails: get_status and
\* set_control_values are never called while the handle is None
C4_NoWireWithoutClient == ~assertFailed

\* both wire operations are in flight on a handle, after shutdown() has run its
\* _disconnect to the end
C4_Witness ==
    /\ pc[Obs] = "get_status"
    /\ pc[Upd] = "set_control_values"
    /\ pc[Shut] = "done"
    /\ client = "CoAPClient"

\* the positions inside "async with self.client_connection_lock"
InLock == {"create", "connect_backoff", "disconnect_locked", "client_shutdown"}

\* C5: at most one task is inside the locked section of _connect or
\* _disconnect: one connect attempt at a time, and no shutdown beside it
C5_OneConnectAttempt == Cardinality({ t \in Tasks : pc[t] \in InLock }) <= 1

\* the observe loop is in CoAPClient.create while send_update waits for the lock
C5_Witness == pc[Obs] = "create" /\ pc[Upd] = "connect_wait"

\* C6 as claimed: with no status publish in flight, was_online is true iff the
\* status the broker accepted last is ONLINE
C6_MirrorIsLastPublished ==
    (~StatusInFlight /\ lastPublished # "NONE")
    => (was_online <=> lastPublished = "ONLINE")

\* C6 amended: was_online is true iff the status publish call issued last is
\* publish_online, or none was issued yet
C6_MirrorIsLastCall ==
    was_online <=> (statusCalls = <<>> \/ Last(statusCalls) = "ONLINE")

\* the broker refused the last status publish: the mirror follows the call, not
\* what was published
C6_Witness ==
    /\ ~StatusInFlight
    /\ statusCalls # <<>>
    /\ lastPublished \notin {"NONE", Last(statusCalls)}
    /\ pubFails > 0

\* C7: no attribute publish is in flight in a publish_state call whose as_dict()
\* equals that of the previous call, and every call that got past its two
\* first publishes issued last_update and raw_state once each
C7_NoRepublish ==
    /\ pc[Obs] = "pub_attr" => prevPretty # <<pretty_state>>
    /\ (pc[Obs] \in {"pub_attr", "sleep", "stopped"} /\ nPoll >= 1)
       => \A topic \in {"last_update", "raw_state"} :
             Cardinality({ n \in 1..Len(pollPubs) : pollPubs[n] = topic }) = 1

\* the second publish_state call returned without one attribute publish
C7_Witness ==
    /\ nPoll = 2
    /\ pc[Obs] = "sleep"
    /\ pollOutcome = "ok"
    /\ prevPretty = <<as_dict(StatusA)>>
    /\ attrCalls = {}

\* C8: the publishes of a successful poll are ONLINE (iff the host was not
\* online), last_update, raw_state, then attributes only
C8_PollPublishOrder ==
    pollOutcome = "ok" =>
        LET fixed == (IF onlineBefore THEN <<>> ELSE <<"ONLINE">>)
                        \o <<"last_update", "raw_state">>
        IN  \A n \in 1..Len(pollPubs) :
                pollPubs[n] = IF n <= Len(fixed) THEN fixed[n] ELSE "attr"

\* a successful poll published ONLINE, last_update, raw_state and attributes
C8_Witness ==
    /\ pollOutcome = "ok"
    /\ Len(pollPubs) >= 5
    /\ pollPubs[1] = "ONLINE"
    /\ pollPubs[Len(pollPubs)] = "attr"

\* C9: when publish_state has returned, every attribute whose latest publish
\* failed and whose value is still the one that failed was published by this
\* call
C9_FailedAttrRepublished ==
    pc[Obs] \in {"sleep", "stopped"} =>
        \A k \in DOMAIN failedAttr :
            failedAttr[k] = pretty_state[k] => k \in attrCalls

\* C10: when the first publish_state of the host has returned, every key of
\* as_dict() was published, once
C10_FirstPublishAllKeys ==
    (pc[Obs] = "sleep" /\ firstCall) =>
        /\ attrCalls = PropertyNames
        /\ Cardinality({ n \in 1..Len(pollPubs) : pollPubs[n] = "attr" })
              = Cardinality(PropertyNames)

\* the commands of Updates that name no property of the device, or carry a
\* value that is no member name of the property's enum
InvalidUpdates == { <<"fan_speed", "1">>, <<"mode", "Turbo">> }

\* C11: a send_update call with an unknown attribute or a value that cannot
\* be coerced returns at once: the device (raw dictionary and command queue) is as
\* before with the queue empty, nothing is left to send and nothing was sent,
\* the subscriber task goes on, and the observe task, its sleep and the CoAP
\* handle are not touched
C11_InvalidCommandIgnored ==
    [][(nUpdates' = nUpdates + 1 /\ <<upd'.prop, upd'.value>> \in InvalidUpdates)
       => /\ device' = device
          /\ device'.commands = <<>>
          /\ upd'.drained = <<>> /\ upd'.sent = <<>> /\ pending' = <<>>
          /\ pc'[Upd] = "idle"
          /\ pc'[Obs] = pc[Obs]
          /\ observe_wait' = observe_wait
          /\ client' = client]_vars

\* an uncoercible value arrived after a status was stored and while the observe
\* loop sleeps: the loop still sleeps and the raw dictionary is the status
C11_Witness ==
    /\ <<upd.prop, upd.value>> = <<"mode", "Turbo">>
    /\ upd.before = StatusA /\ device.raw = StatusA
    /\ pc[Obs] = "sleep" /\ observe_wait = "pending"
    /\ pc[Upd] = "idle"

\* C12: a command whose value is outside the admissible set of its attribute
\* (humidity_target = 45, with Literal[40, 50, 60, 70]) leaves the raw dictionary
\* as it was, and no command is drained or sent
C12_OutOfSetRejected ==
    <<upd.prop, upd.value>> = <<"humidity_target", "45">>
    => upd.after = upd.before /\ upd.drained = <<>> /\ upd.sent = <<>>

\* the writes of Commands that the setters of mode, humidity_target, lamp_mode
\* and brightness accept
DependentWrites ==
    { <<"mode", "Auto">>, <<"humidity_target", "45">>, <<"humidity_target", "50">>,
      <<"lamp_mode", "Warm">>, <<"lamp_mode", "Off">>, <<"brightness", "Low">> }

\* the raw keys of the command each of these properties emits
DependentKeys(p) ==
    CASE p = "mode" -> {WORK_MODE}
      [] p = "humidity_target" -> {HUMIDITY_TARGET}
      [] p = "lamp_mode" -> {LAMP_MODE, AMBIENT_LIGHT_MODE}
      [] p = "brightness" -> {BRIGHTNESS}

\* the command {D03102: 1}
PowerOnCommand == [k \in {POWER_STATUS} |-> 1]

\* C13: a write of mode, humidity_target, lamp_mode or brightness drains
\* {D03102: 1} and then the dependent command when the power was OFF, and the
\* dependent command alone when it was ON; what send_update has sent is at any
\* time a prefix of the drained list
C13_PowerOnFirst ==
    <<upd.prop, upd.value>> \in DependentWrites
    => /\ IF Get(upd.before, POWER_STATUS, 0) = 1
          THEN /\ Len(upd.drained) = 1
               /\ DOMAIN upd.drained[1] = DependentKeys(upd.prop)
          ELSE /\ Len(upd.drained) = 2
               /\ upd.drained[1] = PowerOnCommand
               /\ DOMAIN upd.drained[2] = DependentKeys(upd.prop)
       /\ Len(upd.sent) <= Len(upd.drained)
       /\ upd.sent = SubSeq(upd.drained, 1, Len(upd.sent))

\* lamp_mode = Warm on a device that was off: both commands were sent, the
\* power-on command first
C13_Witness ==
    /\ <<upd.prop, upd.value>> = <<"lamp_mode", "Warm">>
    /\ Get(upd.before, POWER_STATUS, 0) = 0
    /\ upd.sent = <<PowerOnCommand, [k \in {LAMP_MODE, AMBIENT_LIGHT_MODE} |->
                                        IF k = LAMP_MODE THEN 2 ELSE 1]>>
    /\ pc[Upd] = "idle"

\* a second write found the power ON and emitted the dependent command alone
C13_WitnessPowerOn ==
    /\ <<upd.prop, upd.value>> \in DependentWrites
    /\ Get(upd.before, POWER_STATUS, 0) = 1
    /\ Len(upd.sent) = 1

\* C14: once send_update has sent its last command, no sleep of the observe
\* loop runs for its full cycle_time before a new get_status is started
C14_RepollWithoutFullSleep ==
    [][~(/\ repollDue
         /\ pc[Obs] = "sleep" /\ observe_wait = "pending"
         /\ pc'[Obs] # "sleep")]_vars

\* the positions of the observe task inside update_status_from_device
InPoll ==
    { "ensure_connected", "connect_wait", "create", "connect_backoff", "wire",
      "get_status", "signal_state", "signal_offline", "publish_offline",
      "disconnect", "disconnect_wait", "disconnect_locked", "client_shutdown",
      "publish_online", "pub_last_update", "pub_raw_state", "pub_attr", "crashed" }

\* C15: cycle_time is 30 until the first poll completes; every sleep of the
\* observe loop is started with cycle_time = max(10, max_age - 10) for the max_age
\* its poll reported (0 for a failed poll), which is at least 10
C15_CycleTimeFloor ==
    /\ (nPoll = 0 \/ (nPoll = 1 /\ pc[Obs] \in InPoll)) => cycle_time = 30
    /\ pc[Obs] = "sleep"
       => /\ cycle_time = IF max_age - 10 >= 10 THEN max_age - 10 ELSE 10
          /\ cycle_time >= 10

\* a poll reported a negative max_age and the loop sleeps 10 seconds
C15_Witness ==
    /\ pc[Obs] = "sleep" /\ observe_wait = "pending"
    /\ pollOutcome = "ok"
    /\ max_age = -20
    /\ cycle_time = 10

\* C16: the observe tasks of the other bridges of the group are not
\* cancelled, whatever error ends the observe task of this bridge
C16_SiblingsKeepRunning == \A h \in Siblings : siblings[h] = "running"

\* a command message, well formed, for a host that has no bridge
UnknownHost(m) ==
    /\ Truthy(m.payload) /\ m.payload.t = "bytes"
    /\ fullmatch(m.topic).ok
    /\ fullmatch(m.topic).device # <<host>>

\* C17: after a command message for a host without bridge the subscriber
\* loop waits for the next message
C17_UnknownHostDropped == UnknownHost(message) => pc[Upd] = "idle"

\* a message with a payload whose topic is not <root>/<host>/set/<attr>, or whose
\* payload is not bytes
Malformed(m) ==
    /\ Truthy(m.payload)
    /\ ~fullmatch(m.topic).ok \/ m.payload.t # "bytes"

\* C18: after a message with a malformed topic or a payload that is not
\* bytes the subscriber loop waits for the next message
C18_MalformedSkipped == Malformed(message) => pc[Upd] = "idle"

\* C19: once shutdown() has returned the CoAP handle is None and no task is
\* connecting or using the wire
C19_ShutdownTerminal ==
    pc[Shut] = "done"
    => /\ client = "None"
       /\ \A t \in Connecters :
             pc[t] \notin {"create", "connect_backoff", "get_status", "set_control_values"}

\* C20 as claimed: after a write of lamp_mode = m, for a member m and any
\* prior raw state, the lamp_mode getter returns m
C20_LampRoundTripAnyState ==
    (upd.prop = "lamp_mode" /\ upd.value \in LampModeNames)
    => lamp_mode(device.raw) = VStr(upd.value)

\* C20 amended: after a write of lamp_mode = m, for a member m and a prior raw
\* state whose power status is readable (D03102 absent, 0 or 1), the lamp_mode
\* getter returns m
C20_LampRoundTrip ==
    (upd.prop = "lamp_mode" /\ upd.value \in LampModeNames /\ PowerReadable(upd.before))
    => lamp_mode(device.raw) = VStr(upd.value)

\* Breath was written over a raw state that read Humidity, on a device that was
\* off, and reads back
C20_Witness ==
    /\ <<upd.prop, upd.value>> = <<"lamp_mode", "Breath">>
    /\ upd.before = RawOf(0, 1, 4)
    /\ lamp_mode(upd.before) = VStr("Humidity")
    /\ lamp_mode(device.raw) = VStr("Breath")

\* the raw dictionaries of RawStates obtained from a valid status by removing
\* keys: the power is OFF or ON, and the lamp codes, where both are present,
\* are those of a LampMode member
FromValidStatus(raw) ==
    /\ Get(raw, POWER_STATUS, 0) \in {0, 1}
    /\ (LAMP_MODE \in DOMAIN raw /\ AMBIENT_LIGHT_MODE \in DOMAIN raw)
       => <<raw[LAMP_MODE], raw[AMBIENT_LIGHT_MODE]>>
             \in {<<0, 0>>, <<1, 0>>, <<2, 1>>, <<2, 4>>}
    /\ (AMBIENT_LIGHT_MODE \notin DOMAIN raw) => Get(raw, LAMP_MODE, 0) \in {0, 1, 2}

\* C21: on a raw dictionary obtained from a valid status by removing keys,
\* every property read returns a value (none raises), and so does as_dict()
C21_ReadsNeverRaise ==
    FromValidStatus(device.raw)
    => \A p \in PropertyNames : as_dict(device.raw)[p] # VErr

\* the raw keys the setter of a property assigns besides the power status
OwnKeys(p) ==
    CASE p \in {"mode", "humidity_target", "lamp_mode", "brightness"} -> DependentKeys(p)
      [] p = "power_status" -> {POWER_STATUS}
      [] p = "preferences_beep" -> {BEEP_STATUS}
      [] p = "preferences_sensors_in_standby" -> {STANDBY_SENSORS}
      [] OTHER -> {}

\* the keys of the commands a write appended
CommandKeys(cmds) == UNION { DOMAIN cmds[n] : n \in 1..Len(cmds) }

\* C22: the commands a writer call appends cover every raw key it changed
\* and no key it did not assign (its own keys, and D03102 when the power was
\* forced on), each command carries the values of the raw dictionary after the
\* write, and a lamp_mode write emits D03135 and D03137 in one command
C22_CommandsCoverWrite ==
    LET keys == CommandKeys(upd.drained)
    IN  /\ \A k \in DOMAIN upd.after :
              (k \notin DOMAIN upd.before \/ upd.after[k] # upd.before[k]) => k \in keys
        /\ \A k \in keys :
              \/ k \in OwnKeys(upd.prop)
              \/ k = POWER_STATUS /\ Get(upd.before, POWER_STATUS, 0) # upd.after[k]
        /\ \A n \in 1..Len(upd.drained) :
              \A k \in DOMAIN upd.drained[n] : upd.drained[n][k] = upd.after[k]
        /\ (upd.prop = "lamp_mode" /\ upd.drained # <<>>)
           => /\ Cardinality({ n \in 1..Len(upd.drained) :
                    DOMAIN upd.drained[n] = {LAMP_MODE, AMBIENT_LIGHT_MODE} }) = 1
              /\ \A n \in 1..Len(upd.drained) :
                    DOMAIN upd.drained[n] \in {{POWER_STATUS}, {LAMP_MODE, AMBIENT_LIGHT_MODE}}

\* lamp_mode = Dawn written on a device that was off and showed the humidity:
\* a power command, then one command with both lamp keys
C22_Witness ==
    /\ <<upd.prop, upd.value>> = <<"lamp_mode", "Dawn">>
    /\ upd.before = RawOf(0, 1, 0)
    /\ upd.drained = <<PowerOnCommand, [k \in {LAMP_MODE, AMBIENT_LIGHT_MODE} |->
                                           IF k = LAMP_MODE THEN 2 ELSE 2]>>
    /\ device.commands = upd.drained

\* C23: the command queue of the device is empty whenever send_update is
\* suspended or has returned; what a call sends is a prefix of what it drained
\* from its own write; and once a set_control_values of the call has failed the
\* call has returned (the subscriber is back in its loop, or has since ended)
\* with nothing left to send: the commands behind the failed
\* one are not sent and nothing is put back
C23_QueueDrained ==
    /\ device.commands = <<>>
    /\ Len(upd.sent) <= Len(upd.drained)
    /\ upd.sent = SubSeq(upd.drained, 1, Len(upd.sent))
    /\ CommandKeys(upd.drained) \subseteq OwnKeys(upd.prop) \cup {POWER_STATUS}
    /\ pc[Upd] = "idle" => pending = <<>>
    /\ upd.failed => /\ pc[Upd] \in {"idle", "crashed"}
                     /\ pending = <<>>
                     /\ Len(upd.sent) >= 1

\* the power-on command of a lamp_mode write failed on the wire: the lamp
\* command behind it was not sent, and nothing is queued
C23_Witness ==
    /\ upd.failed
    /\ upd.prop = "lamp_mode"
    /\ Len(upd.drained) = 2 /\ upd.sent = <<PowerOnCommand>>
    /\ pc[Upd] = "idle" /\ pending = <<>> /\ device.commands = <<>>

\* a later send_update, after one whose send failed, sent its own command
C23_WitnessLater ==
    /\ ~upd.failed /\ nUpdates = 2
    /\ message.topic = <<root, host, "set", "preferences_beep">>
    /\ Len(upd.sent) = 1 /\ upd.sent = upd.drained
    /\ Get(upd.before, POWER_STATUS, 0) = 1

\* the poll in progress, or the last one, ended without a status: get_status
\* raised LibraryShutdown, ValueError or DigestMismatchException
FailedPoll(outcome) == outcome \in {"shutdown", "invalid"}

\* C24: no step taken in or after a failed poll, up to the next poll, replaces
\* the raw dictionary of the device or the cache of published attributes, and
\* none issues a publish of last_update, raw_state or an attribute
C24_FailedPollKeepsState ==
    [][FailedPoll(pollOutcome') =>
          /\ device'.raw = device.raw
          /\ last_states' = last_states
          /\ pc'[Obs] \notin {"pub_last_update", "pub_raw_state", "pub_attr"}]_vars

\* C25: whichever way the publishers and the subscriber interleave, __aenter__
\* is only awaited while connected is False and __aexit__ only while it is
\* True, by one task at a time, and no more than one __aenter__ has succeeded
\* since the last __aexit__
C25_OneEstablishment ==
    /\ \A t \in MqttTasks : mq[t] = "aenter" => ~connected /\ entries = 0
    /\ \A t \in MqttTasks : mq[t] = "aexit" => connected /\ entries = 1
    /\ \A t, u \in MqttTasks : mq[t] \in {"aenter", "aexit"} /\ mq[u] \in {"aenter", "aexit"}
                                  => t = u
    /\ entries <= 1
    /\ connected <=> entries = 1

\* both publishers and the subscriber went through _connect at the same time,
\* and one establishment served the three of them
C25_Witness ==
    /\ mq["p1"] = "publish" /\ mq["p2"] = "publish" /\ mq[Subscriber] = "listen"
    /\ \A t \in MqttTasks : nPublish[t] = 1 /\ result[t] = "none"
    /\ connected /\ entries = 1

\* the connection was torn down after a failed publish and established again
C25_WitnessAgain ==
    /\ mq["p1"] = "publish" /\ nPublish["p1"] = 2 /\ result["p1"] = "TypeError"
    /\ mq["p2"] = "aexit" /\ result["p2"] = "MqttCodeError"
    /\ connected /\ entries = 1

\* the errors of client.publish the claim is about
PublishFailures == {"MqttCodeError", "TypeError"}

\* C26: a broker error or a type error of client.publish never leaves _publish;
\* _publish returns after it with connected False; and client.publish is only
\* ever called on an established connection, so the publish after a failure
\* goes through __aenter__ first
C26_PublishFailureContained ==
    [][\A t \in MqttPublishers :
          /\ mq[t] # "escaped" /\ mq'[t] = "escaped" => result'[t] \notin PublishFailures
          /\ mq[t] # "idle" /\ mq'[t] = "idle" /\ result'[t] \in PublishFailures
                => ~connected'
          /\ mq[t] # "publish" /\ mq'[t] = "publish" => connected' /\ entries' = 1]_vars

\* a publisher by itself: its first publish failed, its second one has
\* established the connection again and is in flight
C26_Witness ==
    /\ mq["p1"] = "publish" /\ nPublish["p1"] = 2 /\ result["p1"] \in PublishFailures
    /\ nPublish["p2"] = 0 /\ nPublish[Subscriber] = 0
    /\ connected /\ entries = 1

\* the positions of the observe task once _get_status of the current poll has
\* returned to update_status_from_device
AfterGetStatus ==
    {"signal_state", "publish_online", "pub_last_update", "pub_raw_state", "pub_attr",
     "sleep", "update_status", "stopped"}

\* _get_status of poll n has returned
Returned(n) == n < nPoll \/ (n = nPoll /\ pc[Obs] \in AfterGetStatus)

\* C28: once _get_status of a poll has returned, with a status or after an
\* error, the watchdog of that poll issues no publish of OFFLINE and no
\* client.shutdown()
C28_WatchdogOnlyForItsPoll ==
    [][\A n \in 1..MaxPolls :
          Returned(n) =>
             /\ pc'[Wd(n)] = "publish_offline" => pc[Wd(n)] = "publish_offline"
             /\ pc'[Wd(n)] = "client_shutdown" => pc[Wd(n)] = "client_shutdown"]_vars

\* C29: CoAPClient.create is only awaited while the bridge holds no client, so
\* that no client is assigned over one that was not shut down
C29_NoSecondClient == \A t \in Connecters : pc[t] = "create" => client = "None"

\* a command message for host h waits in client.messages, or the subscriber is
\* inside send_update for it
Outstanding(h) ==
    \/ \E n \in 1..Len(queued) : queued[n] = h
    \/ (pc[Upd] = "sibling_update" /\ message.topic[2] = h)

\* C30: a command message for the reachable host h2 is eventually sent to it,
\* whatever command messages were delivered before it
C30_ReachableEventuallySent ==
    Outstanding("h2") ~> (~Outstanding("h2") /\ "h2" \in sentTo)

\* the sleep of a watchdog has just ended
JustExpired == \E w \in Watchdogs : pc[w] = "signal_offline"

\* get_status of the current poll has been called
Requested == requestOn # "none" \/ pollOutcome # "none"

\* C27: after the sleep of a watchdog has ended, the observe loop calls
\* get_status again: in the poll in progress when it had not yet done so, in a
\* later poll otherwise
C27_RecoversAfterExpiry ==
    /\ \A k \in 1..MaxPolls :
          (JustExpired /\ nPoll = k /\ ~Requested) ~> (pc[Obs] = "get_status")
    /\ \A k \in 1..(MaxPolls - 1) :
          (JustExpired /\ nPoll = k /\ Requested)
              ~> (nPoll > k /\ pc[Obs] = "get_status")

\* the observe task is inside update_status_from_device, past its guard
InsidePoll == nPoll > 0 /\ pc[Obs] \notin {"update_status", "sleep", "stopped", "crashed"}

C31_WitnessCrashed == pc[Obs] = "crashed" /\ request_in_progress /\ nPoll = 2

====
